---- MODULE Spec2Model ----
(***************************************************************************)
(* A model of optimake's archive-to-JSONL conversion                      *)
(* (src/src/optimake/convert.py): file matching, entry parsing, entry     *)
(* conversion, property parsing and assignment, and serialisation.        *)
(*                                                                        *)
(* Representation of Python values                                        *)
(*   - a string that is used as a path, an identifier or a row key is a   *)
(*     sequence of "/"-separated segments, each segment a sequence of     *)
(*     "."-separated parts: "structures/foo.cif" is                        *)
(*     << <<"structures">>, <<"foo", "cif">> >>.  str.split("/") and      *)
(*     str.split(".") are then indexing, and f"{a}/{b}" is \o.            *)
(*   - an insertion-ordered dict is a sequence of records [k, v].         *)
(*   - a property value is a record [t, s, p] (see NoneV, Raw, StrV).     *)
(***************************************************************************)
EXTENDS Integers, Sequences, FiniteSets, TLC

(***************************************************************************)
(* Bounds of the model.                                                   *)
(***************************************************************************)
\* the largest number of entries in the configuration (mc_config.entries)
MaxConfigEntries == 2

(***************************************************************************)
(* Generic helpers on sequences.                                          *)
(***************************************************************************)
Range(s) == { s[n] : n \in 1..Len(s) }

Last(s) == s[Len(s)]

RECURSIVE Flatten(_)
\* the concatenation of a sequence of sequences
Flatten(ss) == IF ss = <<>> THEN <<>> ELSE Head(ss) \o Flatten(Tail(ss))

\* the sequences over S that enumerate S without repetition
Orders(S) == { o \in [1..Cardinality(S) -> S] : Range(o) = S }

(***************************************************************************)
(* Python values.                                                         *)
(***************************************************************************)
\* None
NoneV == [t |-> "none", s |-> "", p |-> <<>>]

\* a raw scalar as a property parser returns it; tok is "<type>:<repr>"
Raw(tok) == [t |-> "raw", s |-> tok, p |-> <<>>]

\* a Python str used as an identifier or key
StrV(path) == [t |-> "str", s |-> "", p |-> path]

\* the empty string, as an identifier
EmptyStr == <<>>

\* the scalar tokens of the model: strings, ints, floats and bools,
\* among them the ones Python treats as false
RawTokens == {"s:3.5", "s:", "i:0", "i:2", "f:0.0", "f:3.5", "b:False", "b:True"}

FalsyTokens == {"s:", "i:0", "f:0.0", "b:False"}

\* Python truthiness: bool(v)
Truthy(v) ==
    CASE v.t = "none" -> FALSE
      [] v.t = "raw"  -> v.s \notin FalsyTokens
      [] OTHER        -> v.p # <<>>

\* Python's `a or b`
PyOr(a, b) == IF Truthy(a) THEN a ELSE b

(***************************************************************************)
(* TYPE_MAP: the cast functions of the declared scalar types              *)
(* (float, int, str, bool), on the scalar tokens.  "error" stands for the *)
(* ValueError the Python constructor raises.                              *)
(***************************************************************************)
TypeMapKeys == {"float", "integer", "string", "boolean"}

CastFloat(tok) ==
    CASE tok \in {"s:3.5", "f:3.5"}           -> "f:3.5"
      [] tok \in {"i:0", "f:0.0", "b:False"}  -> "f:0.0"
      [] tok = "i:2"                          -> "f:2.0"
      [] tok = "b:True"                       -> "f:1.0"
      [] OTHER                                -> "error"

CastInt(tok) ==
    CASE tok \in {"i:0", "f:0.0", "b:False"}  -> "i:0"
      [] tok = "i:2"                          -> "i:2"
      [] tok = "f:3.5"                        -> "i:3"
      [] tok = "b:True"                       -> "i:1"
      [] OTHER                                -> "error"

CastStr(tok) ==
    CASE tok \in {"s:3.5", "f:3.5"}  -> "s:3.5"
      [] tok = "s:"                  -> "s:"
      [] tok = "i:0"                 -> "s:0"
      [] tok = "i:2"                 -> "s:2"
      [] tok = "f:0.0"               -> "s:0.0"
      [] tok = "b:False"             -> "s:False"
      [] tok = "b:True"              -> "s:True"
      [] OTHER                       -> "error"

CastBool(tok) == IF tok \in FalsyTokens THEN "b:False" ELSE "b:True"

\* TYPE_MAP[type](value)
Cast(type, tok) ==
    CASE type = "float"   -> CastFloat(tok)
      [] type = "integer" -> CastInt(tok)
      [] type = "string"  -> CastStr(tok)
      [] type = "boolean" -> CastBool(tok)
      [] OTHER            -> tok

(***************************************************************************)
(* Insertion-ordered dicts: sequences of [k, v] without repeated keys.    *)
(***************************************************************************)
DictKeys(d) == { d[n].k : n \in 1..Len(d) }

DictHas(d, key) == key \in DictKeys(d)

\* d[key], for a key of d
DictAt(d, key) == d[CHOOSE n \in 1..Len(d) : d[n].k = key].v

\* d.get(key, default)
DictGet(d, key, default) == IF DictHas(d, key) THEN DictAt(d, key) ELSE default

\* d[key] = value: an existing key keeps its position, a new key goes last
DictSet(d, key, value) ==
    IF DictHas(d, key)
    THEN [n \in 1..Len(d) |-> IF d[n].k = key THEN [k |-> key, v |-> value] ELSE d[n]]
    ELSE Append(d, [k |-> key, v |-> value])

RECURSIVE DictUpdate(_, _)
\* d.update(other)
DictUpdate(d, other) ==
    IF other = <<>> THEN d
    ELSE DictUpdate(DictSet(d, Head(other).k, Head(other).v), Tail(other))

\* the values of d, in order
DictValues(d) == [n \in 1..Len(d) |-> d[n].v]

(***************************************************************************)
(* The archive on disk.  A file system maps each existing path (relative  *)
(* to the archive root) to its content:                                   *)
(*   members  the files a compressed container extracts (a dict)          *)
(*   parse    for each entry parser in turn, what it returns for the file *)
(*   rows     for each property parser in turn, what it returns           *)
(***************************************************************************)
Exists(files, path) == path \in DOMAIN files

\* the paths of the model, in the order sorted() gives Path objects
SortedPaths ==
    << << <<"data", "zip">> >>,
       << <<"more", "csv">> >>,
       << <<"props", "csv">> >>,
       << <<"refs", "bib">> >>,
       << <<"structures">>, <<"bar", "cif">> >>,
       << <<"structures">>, <<"foo", "cif">> >> >>

\* "*" in m
HasWildcard(m) == \E n \in 1..Len(m) : \E j \in 1..Len(m[n]) : m[n][j] = "*"

\* one path segment against one pattern segment
SegMatch(pat, seg) ==
    \/ pat = <<"*">>
    \/ /\ Len(pat) = Len(seg)
       /\ \A j \in 1..Len(pat) : pat[j] = "*" \/ pat[j] = seg[j]

GlobMatch(m, path) ==
    /\ Len(m) = Len(path)
    /\ \A n \in 1..Len(m) : SegMatch(m[n], path[n])

\* sorted(list(Path(archive_path).glob(m)))
Glob(files, m) ==
    SelectSeq(SortedPaths, LAMBDA path : Exists(files, path) /\ GlobMatch(m, path))

(***************************************************************************)
(* Results of a call: the value returned, or the exception raised.        *)
(***************************************************************************)
Ok(x) == [err |-> "none", at |-> "", val |-> x]

Raise(type, where) == [err |-> type, at |-> where, val |-> <<>>]

(***************************************************************************)
(* inflate_archive                                                         *)
(***************************************************************************)
\* extractall: every member is written next to the container, replacing
\* a file of the same name
Extract(files, members) ==
    [path \in DOMAIN files \cup DictKeys(members) |->
        IF DictHas(members, path) THEN DictAt(members, path) ELSE files[path]]

\* inflate_archive(archive_path, data_path): the file system afterwards
InflateArchive(files, data_path) ==
    IF ~Exists(files, data_path)
    THEN Raise("FileNotFoundError", "inflate")
    ELSE Ok(Extract(files, files[data_path].members))

RECURSIVE InflateAll(_, _)
\* the loop of convert_archive over data_paths, in the order given
InflateAll(files, order) ==
    IF order = <<>> THEN Ok(files)
    ELSE LET r == InflateArchive(files, Head(order))
         IN  IF r.err # "none" THEN r ELSE InflateAll(r.val, Tail(order))

RECURSIVE FilesWithMatches(_)
\* the file of every PathSpec that has matches
FilesWithMatches(paths) ==
    IF paths = <<>> THEN {}
    ELSE (IF Head(paths).matches # <<>> THEN {Head(paths).file} ELSE {})
         \cup FilesWithMatches(Tail(paths))

RECURSIVE DataPaths(_)
\* data_paths of convert_archive: a set
DataPaths(entries) ==
    IF entries = <<>> THEN {}
    ELSE FilesWithMatches(Head(entries).entry_paths)
         \cup FilesWithMatches(Head(entries).property_paths)
         \cup DataPaths(Tail(entries))

(***************************************************************************)
(* _get_matches and _check_missing                                         *)
(***************************************************************************)
\* matches_by_file[file] += found, on a defaultdict(list)
DictExtend(d, file, found) == DictSet(d, file, DictGet(d, file, <<>>) \o found)

RECURSIVE AddMatchesSkipEmpty(_, _, _, _)
\* mutant: a wildcard without matches is skipped, not reported
AddMatchesSkipEmpty(files, file, matches, acc) ==
    IF matches = <<>> THEN Ok(acc)
    ELSE LET m == Head(matches) IN
         AddMatchesSkipEmpty(files, file, Tail(matches),
             DictExtend(acc, file, IF HasWildcard(m) THEN Glob(files, m) ELSE <<m>>))

RECURSIVE AddMatches(_, _, _, _)
\* the loop over path.matches
AddMatches(files, file, matches, acc) ==
    IF matches = <<>> THEN Ok(acc)
    ELSE LET m == Head(matches) IN
         IF HasWildcard(m)
         THEN IF Glob(files, m) = <<>>
              THEN Raise("FileNotFoundError", "wildcard")
              ELSE AddMatches(files, file, Tail(matches),
                              DictExtend(acc, file, Glob(files, m)))
         ELSE AddMatches(files, file, Tail(matches), DictExtend(acc, file, <<m>>))

RECURSIVE GetMatchesFrom(_, _, _)
GetMatchesFrom(files, paths, acc) ==
    IF paths = <<>> THEN Ok(acc)
    ELSE LET path == Head(paths)
             r    == AddMatches(files, path.file, path.matches, acc)
         IN  IF r.err # "none" THEN r
             ELSE GetMatchesFrom(files, Tail(paths),
                     IF path.matches = <<>>
                     THEN DictExtend(r.val, path.file, <<path.file>>)
                     ELSE r.val)

\* _get_matches(archive_path, paths)
GetMatches(files, paths) == GetMatchesFrom(files, paths, <<>>)

\* the paths of matches_by_file that do not exist
MissingPaths(files, matches_by_file) ==
    SelectSeq(Flatten(DictValues(matches_by_file)), LAMBDA path : ~Exists(files, path))

\* _check_missing(matches_by_file)
CheckMissing(files, matches_by_file) ==
    IF MissingPaths(files, matches_by_file) # <<>>
    THEN Raise("FileNotFoundError", "missing")
    ELSE Ok(<<>>)

(***************************************************************************)
(* The plugin registries (from .parsers): ordered lists of callables.     *)
(* A callable is named by its position; what it returns for a file or a   *)
(* document is part of that file's or document's content.                 *)
(***************************************************************************)
\* ENTRY_PARSERS
EntryParsers(entry_type) ==
    CASE entry_type = "structures" -> <<1, 2>>
      [] entry_type = "references" -> <<1>>
      [] OTHER                     -> <<>>

\* OPTIMADE_CONVERTERS
OptimadeConverters(entry_type) ==
    CASE entry_type = "structures" -> <<1, 2>>
      [] entry_type = "references" -> <<1>>
      [] OTHER                     -> <<>>

\* PROPERTY_PARSERS, by file extension (_path.suffix)
PropertyParsers(file_ext) ==
    CASE file_ext = "csv" -> <<1>>
      [] OTHER            -> <<>>

\* the keys of PROPERTY_PARSERS
PropertyExtensions == {"csv"}

\* the keys of ENTRY_PARSERS and of OPTIMADE_CONVERTERS
SupportedTypes == {"structures", "references"}

(***************************************************************************)
(* _parse_entries                                                          *)
(***************************************************************************)
\* mutant: only None counts as nothing parsed, an empty list is a result
ParsedNothingNoneOnly(out) == out.kind = "empty"

\* `not doc` for what a parser returned
ParsedNothing(out) == out.kind = "empty" \/ (out.kind = "list" /\ out.docs = <<>>)

\* the first parser of the chain, from position k on, that neither raises
\* nor returns nothing; 0 when the chain is exhausted
RECURSIVE WinningParser(_, _, _)
WinningParser(parse, parsers, k) ==
    IF k > Len(parsers) THEN 0
    ELSE IF parse[parsers[k]].kind = "raise" \/ ParsedNothing(parse[parsers[k]])
         THEN WinningParser(parse, parsers, k + 1)
         ELSE k

\* what `exceptions` holds for a parser that failed on a file: the parser's
\* own exception, or the RuntimeError of line 246
ParserException(out) == IF out.kind = "raise" THEN "raised" ELSE "no_entries"

\* mutant: the root is never collapsed to the sub-archive name
IdRootAlwaysLong(archive_file, path_in_archive, n_matched) ==
    archive_file \o path_in_archive

\* the file's path with the archive base removed, after the sub-archive name
IdRoot(archive_file, path_in_archive, n_matched) ==
    IF n_matched > 1 THEN archive_file \o path_in_archive ELSE archive_file

\* f"{id_root}/{ind}" for ind, _ in enumerate(doc)
IndexedIds(id_root, docs) ==
    [n \in 1..Len(docs) |-> id_root \o << <<ToString(n - 1)>> >>]

\* the files of matches_by_file in processing order, each with the key it
\* is listed under and the number of files listed under that key
MatchItems(matches_by_file) ==
    Flatten([n \in 1..Len(matches_by_file) |->
        [j \in 1..Len(matches_by_file[n].v) |->
            [file |-> matches_by_file[n].k,
             path |-> matches_by_file[n].v[j],
             n_matched |-> Len(matches_by_file[n].v)]]])

RECURSIVE ParseItems(_, _, _, _, _, _)
ParseItems(files, items, entry_type, parsed_entries, entry_ids, calls) ==
    IF items = <<>>
    THEN [err |-> "none", at |-> "", parsed_entries |-> parsed_entries,
          entry_ids |-> entry_ids, calls |-> calls, exceptions |-> <<>>]
    ELSE LET it      == Head(items)
             parsers == EntryParsers(entry_type)
             parse   == files[it.path].parse
             w       == WinningParser(parse, parsers, 1)
             tried   == [k \in 1..(IF w = 0 THEN Len(parsers) ELSE w) |->
                            [parser |-> parsers[k], path |-> it.path]]
             id_root == IdRoot(it.file, it.path, it.n_matched)
         IN  IF w = 0
             THEN [err |-> "RuntimeError", at |-> "parse_entries",
                   parsed_entries |-> parsed_entries, entry_ids |-> entry_ids,
                   calls |-> calls \o tried,
                   exceptions |-> [k \in 1..Len(parsers) |->
                                     [k |-> parsers[k],
                                      v |-> ParserException(parse[parsers[k]])]]]
             ELSE LET out == parse[parsers[w]] IN
                  IF out.kind = "list"
                  THEN ParseItems(files, Tail(items), entry_type,
                                  parsed_entries \o out.docs,
                                  entry_ids \o IndexedIds(id_root, out.docs),
                                  calls \o tried)
                  ELSE ParseItems(files, Tail(items), entry_type,
                                  parsed_entries \o out.docs,
                                  Append(entry_ids, id_root),
                                  calls \o tried)

\* _parse_entries(archive_path, matches_by_file, entry_type); calls lists
\* the parser calls made, in order
ParseEntries(files, matches_by_file, entry_type) ==
    ParseItems(files, MatchItems(matches_by_file), entry_type, <<>>, <<>>, <<>>)

(***************************************************************************)
(* The conversion loop of construct_entries.  `entry` is the loop         *)
(* variable: the parsed document at first.  What converter k returns for  *)
(* the value it is given is entry.conv[k]:                                *)
(*   "raise"    it raises: `entry` is not rebound                          *)
(*   "dict"     a dict                                                     *)
(*   "adapter"  an object that is no dict and has an .entry                *)
(*   "reject"   an object that is no dict and has no .entry: line 398     *)
(*              rebinds `entry` to it (entry.rejected[1]) before line 400 *)
(*              raises AttributeError                                      *)
(***************************************************************************)
\* the converter of the chain, from position k on, whose result is
\* accepted (0 when the chain is exhausted), and the value it was given
RECURSIVE WinningConverter(_, _, _)
WinningConverter(entry, converters, k) ==
    IF k > Len(converters) THEN [k |-> 0, entry |-> entry]
    ELSE CASE entry.conv[converters[k]] \in {"dict", "adapter"} ->
                [k |-> k, entry |-> entry]
           [] entry.conv[converters[k]] = "reject" ->
                WinningConverter(entry.rejected[1], converters, k + 1)
           [] OTHER ->
                WinningConverter(entry, converters, k + 1)

\* the converter calls of the chain from position k on, each with the
\* value of `entry` it is called with
RECURSIVE ConverterCalls(_, _, _)
ConverterCalls(entry, converters, k) ==
    IF k > Len(converters) THEN <<>>
    ELSE <<[converter |-> converters[k], given |-> entry]>> \o
         (CASE entry.conv[converters[k]] \in {"dict", "adapter"} -> <<>>
            [] entry.conv[converters[k]] = "reject" ->
                 ConverterCalls(entry.rejected[1], converters, k + 1)
            [] OTHER ->
                 ConverterCalls(entry, converters, k + 1))

\* the dict the loop body leaves in `entry` for a converted document
EntryDict(doc, entry_type, entry_id) ==
    [id |-> IF doc.cid = EmptyStr THEN entry_id ELSE doc.cid,
     type |-> entry_type,
     attributes |-> doc.attributes]

RECURSIVE ConvertFrom(_, _, _, _, _, _)
ConvertFrom(entry_ids, parsed_entries, entry_type, n, optimade_entries, calls) ==
    IF n > Len(entry_ids) \/ n > Len(parsed_entries)
    THEN [err |-> "none", at |-> "", val |-> optimade_entries, calls |-> calls]
    ELSE LET w    == WinningConverter(parsed_entries[n], OptimadeConverters(entry_type), 1)
             cc   == ConverterCalls(parsed_entries[n], OptimadeConverters(entry_type), 1)
             made == [c \in 1..Len(cc) |->
                        [converter |-> cc[c].converter, given |-> cc[c].given,
                         parsed |-> parsed_entries[n]]]
         IN  IF w.k = 0
             THEN [err |-> "RuntimeError", at |-> "convert", val |-> <<>>,
                   calls |-> calls \o made]
             ELSE IF DictHas(optimade_entries, entry_ids[n])
                  THEN [err |-> "RuntimeError", at |-> "duplicate", val |-> <<>>,
                        calls |-> calls \o made]
                  ELSE ConvertFrom(entry_ids, parsed_entries, entry_type, n + 1,
                           DictSet(optimade_entries, entry_ids[n],
                                   EntryDict(w.entry, entry_type, entry_ids[n])),
                           calls \o made)

\* the loop over zip(entry_ids, parsed_entries): the dict of entries by id,
\* and the converter calls made
ConvertEntries(entry_ids, parsed_entries, entry_type) ==
    ConvertFrom(entry_ids, parsed_entries, entry_type, 1, <<>>, <<>>)

(***************************************************************************)
(* _parse_and_assign_properties                                            *)
(***************************************************************************)
\* the provider prefix the entries are built with
PROVIDER_PREFIX == "mcloudarchive"

\* f"_{provider_prefix}_{property}"
AttrKey(provider_prefix, property) == <<"_", provider_prefix, "_", property>>

\* _path.suffix, without its dot
Suffix(path) == IF Len(Last(path)) > 1 THEN Last(Last(path)) ELSE ""

\* id.split("/")[-1].split(".")[0]
FilenameStem(id) == << <<Last(id)[1]>> >>

RECURSIVE MergeRowsReplace(_, _)
RECURSIVE MergeRows(_, _)
\* mutant: parsed_properties[id] = properties[id]
MergeRowsReplace(parsed_properties, properties) ==
    IF properties = <<>> THEN parsed_properties
    ELSE MergeRowsReplace(
            DictSet(parsed_properties, Head(properties).k, Head(properties).v),
            Tail(properties))

\* for id in properties: parsed_properties[id].update(properties[id])
MergeRows(parsed_properties, properties) ==
    IF properties = <<>> THEN parsed_properties
    ELSE MergeRows(
            DictSet(parsed_properties, Head(properties).k,
                    DictUpdate(DictGet(parsed_properties, Head(properties).k, <<>>),
                               Head(properties).v)),
            Tail(properties))

\* the property names of the rows of one parsed file
RowFields(properties) ==
    UNION { DictKeys(properties[n].v) : n \in 1..Len(properties) }

\* the first property parser of the chain that does not raise; 0 if none
RECURSIVE WinningPropertyParser(_, _, _)
WinningPropertyParser(rows, parsers, k) ==
    IF k > Len(parsers) THEN 0
    ELSE IF rows[parsers[k]].kind = "raise"
         THEN WinningPropertyParser(rows, parsers, k + 1)
         ELSE k

RECURSIVE ParsePropertyItems(_, _, _, _, _)
ParsePropertyItems(files, items, parsed_properties, all_property_fields, calls) ==
    IF items = <<>>
    THEN [err |-> "none", at |-> "", parsed_properties |-> parsed_properties,
          all_property_fields |-> all_property_fields, calls |-> calls]
    ELSE LET path    == Head(items).path
             file_ext == Suffix(path)
             parsers == PropertyParsers(file_ext)
             w       == WinningPropertyParser(files[path].rows, parsers, 1)
             tried   == [k \in 1..(IF w = 0 THEN Len(parsers) ELSE w) |->
                            [parser |-> parsers[k], path |-> path]]
         IN  IF file_ext \notin PropertyExtensions
             THEN [err |-> "KeyError", at |-> "property_parsers",
                   parsed_properties |-> parsed_properties,
                   all_property_fields |-> all_property_fields, calls |-> calls]
             ELSE IF w = 0
             THEN [err |-> "RuntimeError", at |-> "parse_properties",
                   parsed_properties |-> parsed_properties,
                   all_property_fields |-> all_property_fields,
                   calls |-> calls \o tried]
             ELSE ParsePropertyItems(files, Tail(items),
                     MergeRows(parsed_properties, files[path].rows[parsers[w]].rows),
                     all_property_fields \cup RowFields(files[path].rows[parsers[w]].rows),
                     calls \o tried)

\* the first loop of _parse_and_assign_properties and the check after it
ParseProperties(files, property_matches_by_file) ==
    LET r == ParsePropertyItems(files, MatchItems(property_matches_by_file),
                                <<>>, {}, <<>>)
    IN  IF r.err = "none" /\ r.parsed_properties = <<>>
        THEN [r EXCEPT !.err = "RuntimeError", !.at = "no_properties"]
        ELSE r

\* property_def_dict[property].type; a later definition of a name replaces
\* an earlier one
DefType(property_definitions, property) ==
    property_definitions[
        CHOOSE n \in 1..Len(property_definitions) :
            /\ property_definitions[n].name = property
            /\ \A j \in (n + 1)..Len(property_definitions) :
                   property_definitions[j].name # property].type

DefNames(property_definitions) ==
    { property_definitions[n].name : n \in 1..Len(property_definitions) }

\* the key the rows of an entry are looked up under first
PropertyEntryId(id, attributes) ==
    LET immutable_id == DictGet(attributes, <<"immutable_id">>, NoneV)
    IN  IF immutable_id = NoneV THEN FilenameStem(id) ELSE immutable_id.p

\* mutant: .get(property, 0) in place of .get(property, None)
LookupValueDefaultZero(parsed_properties, property_entry_id, id, property) ==
    PyOr(DictGet(DictGet(parsed_properties, property_entry_id, <<>>), property, Raw("i:0")),
         DictGet(DictGet(parsed_properties, id, <<>>), property, Raw("i:0")))

\* parsed_properties.get(property_entry_id, {}).get(property, None)
\*     or parsed_properties.get(id, {}).get(property, None)
LookupValue(parsed_properties, property_entry_id, id, property) ==
    PyOr(DictGet(DictGet(parsed_properties, property_entry_id, <<>>), property, NoneV),
         DictGet(DictGet(parsed_properties, id, <<>>), property, NoneV))

\* the value as it is written: cast when it is not None and the declared
\* type is in TYPE_MAP
CastValue(value, type) ==
    IF value # NoneV /\ type \in TypeMapKeys
    THEN (IF Cast(type, value.s) = "error" THEN Raise("ValueError", "cast")
          ELSE Ok(Raw(Cast(type, value.s))))
    ELSE Ok(value)

RECURSIVE AssignFieldsUndeclared(_, _, _, _, _, _)
\* mutant: a found property without a definition is written as well, uncast
AssignFieldsUndeclared(attributes, id, parsed_properties, order, property_definitions, provider_prefix) ==
    IF order = <<>> THEN Ok(attributes)
    ELSE LET property == Head(order)
             value == LookupValue(parsed_properties,
                                  PropertyEntryId(id, attributes), id, property)
             c == IF property \in DefNames(property_definitions)
                  THEN CastValue(value, DefType(property_definitions, property))
                  ELSE Ok(value)
         IN  IF c.err # "none" THEN c
             ELSE AssignFieldsUndeclared(
                     DictSet(attributes, AttrKey(provider_prefix, property), c.val),
                     id, parsed_properties, Tail(order),
                     property_definitions, provider_prefix)

RECURSIVE AssignFields(_, _, _, _, _, _)
\* the loop over all_property_fields for one entry: its attributes afterwards
AssignFields(attributes, id, parsed_properties, order, property_definitions, provider_prefix) ==
    IF order = <<>> THEN Ok(attributes)
    ELSE LET property == Head(order)
             value == LookupValue(parsed_properties,
                                  PropertyEntryId(id, attributes), id, property)
         IN  IF property \notin DefNames(property_definitions)
             THEN AssignFields(attributes, id, parsed_properties, Tail(order),
                               property_definitions, provider_prefix)
             ELSE LET c == CastValue(value, DefType(property_definitions, property))
                  IN  IF c.err # "none" THEN c
                      ELSE AssignFields(
                              DictSet(attributes, AttrKey(provider_prefix, property), c.val),
                              id, parsed_properties, Tail(order),
                              property_definitions, provider_prefix)

RECURSIVE AssignEntries(_, _, _, _, _, _)
\* the loop over optimade_entries, from entry n on
AssignEntries(optimade_entries, n, parsed_properties, order, property_definitions, provider_prefix) ==
    IF n > Len(optimade_entries) THEN Ok(optimade_entries)
    ELSE LET e == optimade_entries[n]
             r == AssignFields(e.v.attributes, e.k, parsed_properties, order,
                               property_definitions, provider_prefix)
         IN  IF r.err # "none"
             THEN [r EXCEPT !.val = optimade_entries]
             ELSE AssignEntries(
                     [optimade_entries EXCEPT ![n].v.attributes = r.val],
                     n + 1, parsed_properties, order, property_definitions,
                     provider_prefix)

\* the warnings _parse_and_assign_properties emits
AssignWarnings(all_property_fields, property_definitions, n_entries) ==
    (IF DefNames(property_definitions) # all_property_fields
     THEN {"fields_differ"} ELSE {})
    \cup (IF n_entries > 0 /\ all_property_fields \ DefNames(property_definitions) # {}
          THEN {"missing_definition"} ELSE {})

\* _parse_and_assign_properties(optimade_entries, property_matches_by_file,
\* entry_type, property_definitions, provider_prefix).  order is the order
\* in which the set all_property_fields is iterated.  val is
\* optimade_entries as the call leaves it.
ParseAndAssignProperties(files, optimade_entries, property_matches_by_file, property_definitions, provider_prefix, order) ==
    IF property_matches_by_file = <<>>
    THEN [err |-> "none", at |-> "", val |-> optimade_entries,
          warnings |-> {}, calls |-> <<>>]
    ELSE LET p == ParseProperties(files, property_matches_by_file) IN
         IF p.err # "none"
         THEN [err |-> p.err, at |-> p.at, val |-> optimade_entries,
               warnings |-> {}, calls |-> p.calls]
         ELSE LET r == AssignEntries(optimade_entries, 1, p.parsed_properties, order,
                                     property_definitions, provider_prefix)
              IN  [err |-> r.err, at |-> r.at, val |-> r.val,
                   warnings |-> AssignWarnings(p.all_property_fields,
                                               property_definitions,
                                               Len(optimade_entries)),
                   calls |-> p.calls]

(***************************************************************************)
(* write_optimade_jsonl and _construct_entry_type_info                     *)
(***************************************************************************)
NoEntry == [id |-> EmptyStr, type |-> "", attributes |-> <<>>]

\* the x-optimade header line
HeaderLine == [kind |-> "x-optimade", type |-> "", fields |-> <<>>, entry |-> NoEntry]

\* info["properties"] of _construct_entry_type_info, before the defaults of
\* the external schema registry are merged in: key -> declared type
InfoProperties(properties, provider_prefix) ==
    DictUpdate(<<>>,
        [n \in 1..Len(properties) |->
            [k |-> AttrKey(provider_prefix, properties[n].name),
             v |-> properties[n].type]])

\* the info line of one entry type
InfoLine(entry_type, properties, provider_prefix) ==
    [kind |-> "info", type |-> entry_type,
     fields |-> InfoProperties(properties, provider_prefix), entry |-> NoEntry]

\* k.startswith("_ase")
StartsWithAse(key) == Len(key) >= 2 /\ key[1] = "_" /\ key[2] = "ase"

\* mutant: the record is written with all its attribute keys
EntryLineUnstripped(entry_dict) ==
    [kind |-> "entry", type |-> entry_dict.type, fields |-> <<>>, entry |-> entry_dict]

\* the attributes without the keys of the reserved prefix, lines 478-482
StripReserved(attributes) == SelectSeq(attributes, LAMBDA a : ~StartsWithAse(a.k))

\* the line of one record, its reserved attribute keys dropped
EntryLine(entry_dict) ==
    [kind |-> "entry", type |-> entry_dict.type, fields |-> <<>>,
     entry |-> [entry_dict EXCEPT !.attributes = StripReserved(entry_dict.attributes)]]

\* optimade_entries as the writer leaves it: line 483 rebinds the
\* attributes of every record it writes
StrippedEntries(optimade_entries) ==
    [n \in 1..Len(optimade_entries) |->
        [k |-> optimade_entries[n].k,
         v |-> [j \in 1..Len(optimade_entries[n].v) |->
                   [optimade_entries[n].v[j] EXCEPT
                       !.attributes = StripReserved(optimade_entries[n].v[j].attributes)]]]]

\* the info lines, one per key of property_definitions
InfoLines(property_definitions, provider_prefix) ==
    [n \in 1..Len(property_definitions) |->
        InfoLine(property_definitions[n].k, property_definitions[n].v, provider_prefix)]

\* the record lines, type by type
EntryLines(optimade_entries) ==
    Flatten([n \in 1..Len(optimade_entries) |->
        [j \in 1..Len(optimade_entries[n].v) |-> EntryLine(optimade_entries[n].v[j])]])

\* a path on which no file exists
NoFile == [exists |-> FALSE, lines |-> <<>>]

\* mutant: the file is opened for append without the guard of line 459
WriteOptimadeJsonlAppend(file, optimade_entries, property_definitions, provider_prefix) ==
    Ok([exists |-> TRUE,
        lines |-> file.lines \o <<HeaderLine>>
                  \o InfoLines(property_definitions, provider_prefix)
                  \o EntryLines(optimade_entries)])

\* write_optimade_jsonl(...): the file at jsonl_path afterwards
WriteOptimadeJsonl(file, optimade_entries, property_definitions, provider_prefix) ==
    IF file.exists
    THEN Raise("RuntimeError", "output_exists")
    ELSE Ok([exists |-> TRUE,
             lines |-> <<HeaderLine>>
                       \o InfoLines(property_definitions, provider_prefix)
                       \o EntryLines(optimade_entries)])

RECURSIVE CollectDefinitionsPerEntry(_, _)
\* mutant: one item per configuration entry, not one per entry type
CollectDefinitionsPerEntry(entries, acc) ==
    IF entries = <<>> THEN acc
    ELSE CollectDefinitionsPerEntry(Tail(entries),
            Append(acc, [k |-> Head(entries).entry_type,
                         v |-> Head(entries).property_definitions]))

RECURSIVE CollectDefinitions(_, _)
\* property_definitions of convert_archive: a defaultdict(list) by type
CollectDefinitions(entries, acc) ==
    IF entries = <<>> THEN acc
    ELSE CollectDefinitions(Tail(entries),
            DictExtend(acc, Head(entries).entry_type, Head(entries).property_definitions))

(***************************************************************************)
(* The archives and configurations the model is run on.                   *)
(***************************************************************************)
P_zip   == << <<"data", "zip">> >>
P_props == << <<"props", "csv">> >>
P_more  == << <<"more", "csv">> >>
P_bib   == << <<"refs", "bib">> >>
P_foo   == << <<"structures">>, <<"foo", "cif">> >>
P_bar   == << <<"structures">>, <<"bar", "cif">> >>
G_cif   == << <<"structures">>, <<"*", "cif">> >>
G_none  == << <<"*", "nonexistent">> >>

K_foo   == << <<"foo">> >>
K_bar   == << <<"bar">> >>
K_imm   == << <<"imm1">> >>
K_X     == << <<"X">> >>

\* what a parser call gives
ParserRaises == [kind |-> "raise", docs |-> <<>>]
Single(doc)  == [kind |-> "single", docs |-> <<doc>>]
Many(docs)   == [kind |-> "list", docs |-> docs]
RowsRaise    == [kind |-> "raise", rows |-> <<>>]
Rows(rows)   == [kind |-> "rows", rows |-> rows]

\* file contents
Unparsable        == [members |-> <<>>, parse |-> <<ParserRaises, ParserRaises>>,
                      rows |-> <<RowsRaise>>]
EntryFile(p1, p2) == [members |-> <<>>, parse |-> <<p1, p2>>, rows |-> <<RowsRaise>>]
PropertyFile(r)   == [members |-> <<>>, parse |-> <<ParserRaises, ParserRaises>>,
                      rows |-> <<r>>]
Container(m)      == [members |-> m, parse |-> <<ParserRaises, ParserRaises>>,
                      rows |-> <<RowsRaise>>]

\* documents: the id and attributes their conversion yields, what each
\* converter does with them, and the object a rejected result is
NoObject == <<>>
Document(cid, attributes, conv) ==
    [cid |-> cid, attributes |-> attributes, conv |-> conv, rejected |-> NoObject]

ImmutableId(v) == [k |-> <<"immutable_id">>, v |-> v]
DocPlain == Document(EmptyStr, <<ImmutableId(NoneV)>>, <<"dict", "dict">>)
DocX     == Document(K_X,
                     <<ImmutableId(NoneV),
                       [k |-> <<"_", "ase", "_", "tag">>, v |-> Raw("i:2")],
                       [k |-> <<"ase", "_", "info">>, v |-> Raw("b:True")]>>,
                     <<"adapter", "dict">>)
DocImm   == Document(EmptyStr, <<ImmutableId(StrV(K_imm))>>, <<"raise", "dict">>)
DocBad   == Document(EmptyStr, <<>>, <<"raise", "raise">>)

\* returned by converter 1 without an .entry: an object that converter 2
\* raises on, and one that converter 2 converts
ObjectUnusable == Document(EmptyStr, <<>>, <<"raise", "raise">>)
ObjectUsable   == Document(EmptyStr, <<[k |-> <<"wrapped">>, v |-> Raw("b:True")]>>,
                           <<"raise", "dict">>)

\* documents whose first converter returns such an object; converter 2
\* converts the document itself when it is given it
DocRejected == [cid |-> EmptyStr, attributes |-> <<ImmutableId(NoneV)>>,
                conv |-> <<"reject", "dict">>, rejected |-> <<ObjectUnusable>>]
DocWrapped  == [cid |-> EmptyStr, attributes |-> <<ImmutableId(NoneV)>>,
                conv |-> <<"reject", "dict">>, rejected |-> <<ObjectUsable>>]

Row(key, fields) == [k |-> key, v |-> fields]
Field(name, tok) == [k |-> name, v |-> Raw(tok)]

\* the contents data.zip can have
ZipContents ==
    { Container(<<Row(P_bar, EntryFile(Single(DocX), ParserRaises)),
                  Row(P_foo, EntryFile(Single(DocPlain), ParserRaises))>>),
      Container(<<Row(P_bar, EntryFile(Single(DocX), ParserRaises)),
                  Row(P_foo, EntryFile(ParserRaises, Single(DocX)))>>),
      Container(<<Row(P_foo, EntryFile(Many(<<DocImm, DocWrapped>>), ParserRaises))>>),
      Container(<<Row(P_foo, EntryFile(Single(DocRejected), ParserRaises))>>),
      Container(<<Row(P_foo, EntryFile(Many(<<>>), Single(DocBad)))>>),
      Container(<<Row(P_foo, EntryFile(ParserRaises, Many(<<>>)))>>) }

\* the contents refs.bib can have
BibContents == { EntryFile(Many(<<DocPlain>>), ParserRaises) }

\* the contents props.csv can have
PropsContents ==
    { PropertyFile(Rows(<<Row(K_foo, <<Field("energy", "s:3.5"), Field("label", "s:")>>),
                          Row(K_bar, <<Field("energy", "i:0")>>)>>)),
      PropertyFile(Rows(<<Row(K_imm, <<Field("extra", "i:2"), Field("energy", "f:3.5")>>)>>)),
      PropertyFile(RowsRaise) }

\* a file system from the files present: a sequence of [k |-> path, v |-> content]
FileSystem(present) == [path \in DictKeys(present) |-> DictAt(present, path)]

Optional(path, contents) == {<<>>} \cup { <<Row(path, c)>> : c \in contents }

FileSystems ==
    { FileSystem(z \o b \o p) :
        z \in Optional(P_zip, ZipContents),
        b \in Optional(P_bib, BibContents),
        p \in Optional(P_props, PropsContents) }

PathSpec(file, matches) == [file |-> file, matches |-> matches]
PropertyDefinition(name, type) == [name |-> name, type |-> type]

\* the entries a configuration is made of
EntryConfigs ==
    { [entry_type |-> "structures",
       entry_paths |-> <<PathSpec(P_zip, <<G_cif>>)>>,
       property_paths |-> <<PathSpec(P_props, <<>>)>>,
       property_definitions |-> <<PropertyDefinition("energy", "float"),
                                  PropertyDefinition("label", "string")>>],
      [entry_type |-> "structures",
       entry_paths |-> <<PathSpec(P_zip, <<P_foo>>)>>,
       property_paths |-> <<>>,
       property_definitions |-> <<PropertyDefinition("energy", "float")>>],
      [entry_type |-> "structures",
       entry_paths |-> <<PathSpec(P_zip, <<G_cif>>)>>,
       property_paths |-> <<PathSpec(P_zip, <<G_none>>)>>,
       property_definitions |-> <<>>],
      [entry_type |-> "structures",
       entry_paths |-> <<PathSpec(P_zip, <<G_none>>)>>,
       property_paths |-> <<PathSpec(P_props, <<>>)>>,
       property_definitions |-> <<>>],
      [entry_type |-> "references",
       entry_paths |-> <<PathSpec(P_bib, <<>>)>>,
       property_paths |-> <<>>,
       property_definitions |-> <<>>],
      [entry_type |-> "references",
       entry_paths |-> <<PathSpec(P_bib, <<>>), PathSpec(P_bib, <<P_bib>>)>>,
       property_paths |-> <<>>,
       property_definitions |-> <<>>],
      [entry_type |-> "references",
       entry_paths |-> <<>>,
       property_paths |-> <<>>,
       property_definitions |-> <<PropertyDefinition("year", "integer")>>],
      [entry_type |-> "trajectories",
       entry_paths |-> <<>>,
       property_paths |-> <<>>,
       property_definitions |-> <<>>] }

\* mc_config.entries: a list of entry configurations
Configs == UNION { [1..n -> EntryConfigs] : n \in 1..MaxConfigEntries }

\* a file found at jsonl_path before the conversion
OldLine == [kind |-> "old", type |-> "", fields |-> <<>>, entry |-> NoEntry]
OldFile == [exists |-> TRUE, lines |-> <<OldLine>>]

(***************************************************************************)
(* The state of one run of convert_archive.                               *)
(***************************************************************************)
VARIABLES
    config,                    \* mc_config.entries
    files,                     \* the archive directory
    jsonl,                     \* the file at jsonl_path
    pc,                        \* the statement convert_archive is at
    ei,                        \* the index in config of the entry in work
    entry_matches_by_file,     \* locals of construct_entries
    parsed_entries,
    entry_ids,
    property_matches_by_file,
    entries,                   \* optimade_entries of construct_entries
    optimade_entries,          \* optimade_entries of convert_archive
    error,                     \* the exception convert_archive ended with
    entry_parser_calls,        \* the entry parser calls made so far
    property_parser_calls,     \* the property parser calls made so far
    converter_calls,           \* the converter calls made so far
    warnings,                  \* the warnings emitted so far
    start_jsonl,               \* the file at jsonl_path as the run found it
    run,                       \* 1, or 2 for a repeated run
    first_jsonl                \* what the first run wrote

locals == <<entry_matches_by_file, parsed_entries, entry_ids,
            property_matches_by_file, entries>>

history == <<start_jsonl, run, first_jsonl>>

vars == <<config, files, jsonl, pc, ei, locals, optimade_entries, error,
          entry_parser_calls, property_parser_calls, converter_calls, warnings,
          history>>

\* no exception; otherwise err is its class, at what raised it, stage the
\* statement of convert_archive it was raised in, and exceptions the
\* per-parser exceptions its message reports
NoError == [err |-> "none", at |-> "", stage |-> "", exceptions |-> <<>>]

\* the state convert_archive starts in, for a configuration, an archive
\* directory and a file (or none) at jsonl_path
Begin(c, f, out) ==
    /\ config = c
    /\ files = f
    /\ jsonl = out
    /\ pc = "inflate"
    /\ ei = 1
    /\ entry_matches_by_file = <<>>
    /\ parsed_entries = <<>>
    /\ entry_ids = <<>>
    /\ property_matches_by_file = <<>>
    /\ entries = <<>>
    /\ optimade_entries = <<>>
    /\ error = NoError
    /\ entry_parser_calls = <<>>
    /\ property_parser_calls = <<>>
    /\ converter_calls = <<>>
    /\ warnings = {}
    /\ start_jsonl = out
    /\ run = 1
    /\ first_jsonl = NoFile

Init ==
    \E c \in Configs, f \in FileSystems, out \in {NoFile, OldFile} : Begin(c, f, out)

\* an exception leaves convert_archive
Fail(r) ==
    /\ pc' = "failed"
    /\ error' = [err |-> r.err, at |-> r.at, stage |-> pc,
                 exceptions |-> IF "exceptions" \in DOMAIN r THEN r.exceptions ELSE <<>>]

\* the entry configuration in work
entry_config == config[ei]

\* logged parser calls, tagged with the configuration entry they belong to
Tagged(calls) == [n \in 1..Len(calls) |->
                    [entry |-> ei, parser |-> calls[n].parser, path |-> calls[n].path]]

(***************************************************************************)
(* convert_archive, lines 86-97: decompress the data paths.  data_paths   *)
(* is a set: the loop takes its elements in an order the run does not     *)
(* control.                                                               *)
(***************************************************************************)
Inflate ==
    /\ pc = "inflate"
    /\ \E order \in Orders(DataPaths(config)) :
          LET r == InflateAll(files, order) IN
          IF r.err # "none"
          THEN Fail(r) /\ UNCHANGED files
          ELSE /\ files' = r.val
               /\ pc' = "get_entry_matches"
               /\ UNCHANGED error
    /\ UNCHANGED <<config, jsonl, ei, locals, optimade_entries,
                   entry_parser_calls, property_parser_calls, converter_calls,
                   warnings, history>>

(***************************************************************************)
(* construct_entries, lines 364-374: the registry checks and the entry    *)
(* file matching.                                                         *)
(***************************************************************************)
GetEntryMatches ==
    /\ pc = "get_entry_matches"
    /\ LET r == GetMatches(files, entry_config.entry_paths) IN
       IF entry_config.entry_type \notin SupportedTypes
       THEN Fail(Raise("RuntimeError", "unsupported")) /\ UNCHANGED locals
       ELSE IF r.err # "none"
       THEN Fail(r) /\ UNCHANGED locals
       ELSE /\ entry_matches_by_file' = r.val
            /\ pc' = "check_entry_files"
            /\ UNCHANGED <<error, parsed_entries, entry_ids,
                           property_matches_by_file, entries>>
    /\ UNCHANGED <<config, files, jsonl, ei, optimade_entries,
                   entry_parser_calls, property_parser_calls, converter_calls,
                   warnings, history>>

CheckEntryFiles ==
    /\ pc = "check_entry_files"
    /\ LET r == CheckMissing(files, entry_matches_by_file) IN
       IF r.err # "none" THEN Fail(r)
       ELSE pc' = "parse_entries" /\ UNCHANGED error
    /\ UNCHANGED <<config, files, jsonl, ei, locals, optimade_entries,
                   entry_parser_calls, property_parser_calls, converter_calls,
                   warnings, history>>

\* construct_entries, lines 377-381
ParseEntriesStep ==
    /\ pc = "parse_entries"
    /\ LET r == ParseEntries(files, entry_matches_by_file, entry_config.entry_type) IN
       /\ entry_parser_calls' = entry_parser_calls \o Tagged(r.calls)
       /\ IF r.err # "none"
          THEN Fail(r) /\ UNCHANGED <<parsed_entries, entry_ids>>
          ELSE /\ parsed_entries' = r.parsed_entries
               /\ entry_ids' = r.entry_ids
               /\ pc' = "get_property_matches"
               /\ UNCHANGED error
    /\ UNCHANGED <<config, files, jsonl, ei, entry_matches_by_file,
                   property_matches_by_file, entries, optimade_entries,
                   property_parser_calls, converter_calls, warnings, history>>

\* construct_entries, lines 384-386
GetPropertyMatches ==
    /\ pc = "get_property_matches"
    /\ LET r == GetMatches(files, entry_config.property_paths) IN
       IF r.err # "none"
       THEN Fail(r) /\ UNCHANGED property_matches_by_file
       ELSE /\ property_matches_by_file' = r.val
            /\ pc' = "check_property_files"
            /\ UNCHANGED error
    /\ UNCHANGED <<config, files, jsonl, ei, entry_matches_by_file, parsed_entries,
                   entry_ids, entries, optimade_entries,
                   entry_parser_calls, property_parser_calls, converter_calls,
                   warnings, history>>

\* construct_entries, line 387
CheckPropertyFiles ==
    /\ pc = "check_property_files"
    /\ LET r == CheckMissing(files, property_matches_by_file) IN
       IF r.err # "none" THEN Fail(r)
       ELSE pc' = "convert" /\ UNCHANGED error
    /\ UNCHANGED <<config, files, jsonl, ei, locals, optimade_entries,
                   entry_parser_calls, property_parser_calls, converter_calls,
                   warnings, history>>

\* construct_entries, lines 390-419
ConvertStep ==
    /\ pc = "convert"
    /\ LET r == ConvertEntries(entry_ids, parsed_entries, entry_config.entry_type) IN
       /\ converter_calls' = converter_calls \o r.calls
       /\ IF r.err # "none"
          THEN Fail(r) /\ UNCHANGED entries
          ELSE /\ entries' = r.val
               /\ pc' = "assign_properties"
               /\ UNCHANGED error
    /\ UNCHANGED <<config, files, jsonl, ei, entry_matches_by_file, parsed_entries,
                   entry_ids, property_matches_by_file, optimade_entries,
                   entry_parser_calls, property_parser_calls, warnings, history>>

\* the set all_property_fields the assignment loop iterates over
FoundFields ==
    IF property_matches_by_file = <<>> THEN {}
    ELSE ParseProperties(files, property_matches_by_file).all_property_fields

\* construct_entries, lines 422-428: all_property_fields is a set, which
\* the assignment loop takes in an order the run does not control
AssignProperties ==
    /\ pc = "assign_properties"
    /\ \E order \in Orders(FoundFields) :
          LET r == ParseAndAssignProperties(files, entries, property_matches_by_file,
                       entry_config.property_definitions, PROVIDER_PREFIX, order)
          IN  /\ property_parser_calls' = property_parser_calls \o Tagged(r.calls)
              /\ warnings' = warnings \cup r.warnings
              /\ IF r.err # "none"
                 THEN Fail(r) /\ UNCHANGED entries
                 ELSE /\ entries' = r.val
                      /\ pc' = "extend"
                      /\ UNCHANGED error
    /\ UNCHANGED <<config, files, jsonl, ei, entry_matches_by_file, parsed_entries,
                   entry_ids, property_matches_by_file, optimade_entries,
                   entry_parser_calls, converter_calls, history>>

\* mutant: the records of a configuration entry are written out as soon as
\* construct_entries has returned them
ExtendEntriesEager ==
    /\ pc = "extend"
    /\ optimade_entries' =
           DictExtend(optimade_entries, entry_config.entry_type, DictValues(entries))
    /\ jsonl' = [exists |-> TRUE,
                 lines |-> jsonl.lines
                           \o [n \in 1..Len(entries) |-> EntryLine(entries[n].v)]]
    /\ ei' = ei + 1
    /\ pc' = IF ei < Len(config) THEN "get_entry_matches" ELSE "write"
    /\ entry_matches_by_file' = <<>>
    /\ parsed_entries' = <<>>
    /\ entry_ids' = <<>>
    /\ property_matches_by_file' = <<>>
    /\ entries' = <<>>
    /\ UNCHANGED <<config, files, error,
                   entry_parser_calls, property_parser_calls, converter_calls,
                   warnings, history>>

\* convert_archive, lines 101-104: the entries returned are appended to the
\* list of their type, and the loop goes on to the next configuration entry
ExtendEntries ==
    /\ pc = "extend"
    /\ optimade_entries' =
           DictExtend(optimade_entries, entry_config.entry_type, DictValues(entries))
    /\ ei' = ei + 1
    /\ pc' = IF ei < Len(config) THEN "get_entry_matches" ELSE "write"
    /\ entry_matches_by_file' = <<>>
    /\ parsed_entries' = <<>>
    /\ entry_ids' = <<>>
    /\ property_matches_by_file' = <<>>
    /\ entries' = <<>>
    /\ UNCHANGED <<config, files, jsonl, error,
                   entry_parser_calls, property_parser_calls, converter_calls,
                   warnings, history>>

\* convert_archive, lines 106-118
WriteJsonl ==
    /\ pc = "write"
    /\ LET r == WriteOptimadeJsonl(jsonl, optimade_entries,
                                   CollectDefinitions(config, <<>>), PROVIDER_PREFIX)
       IN  IF r.err # "none"
           THEN Fail(r) /\ UNCHANGED <<jsonl, optimade_entries>>
           ELSE /\ jsonl' = r.val
                /\ optimade_entries' = StrippedEntries(optimade_entries)
                /\ pc' = "done"
                /\ UNCHANGED error
    /\ UNCHANGED <<config, files, ei, locals,
                   entry_parser_calls, property_parser_calls, converter_calls,
                   warnings, history>>

Next ==
    \/ Inflate
    \/ GetEntryMatches
    \/ CheckEntryFiles
    \/ ParseEntriesStep
    \/ GetPropertyMatches
    \/ CheckPropertyFiles
    \/ ConvertStep
    \/ AssignProperties
    \/ ExtendEntries
    \/ WriteJsonl

Spec == Init /\ [][Next]_vars

(***************************************************************************)
(* A second run of convert_archive over the same archive directory and    *)
(* configuration, the output of the first run set aside.                  *)
(***************************************************************************)
Restart ==
    /\ pc = "done"
    /\ run = 1
    /\ run' = 2
    /\ first_jsonl' = jsonl
    /\ jsonl' = start_jsonl
    /\ pc' = "inflate"
    /\ ei' = 1
    /\ optimade_entries' = <<>>
    /\ entry_parser_calls' = <<>>
    /\ property_parser_calls' = <<>>
    /\ converter_calls' = <<>>
    /\ warnings' = {}
    /\ UNCHANGED <<config, files, locals, error, start_jsonl>>

NextRerun ==
    \/ Next
    \/ Restart

SpecRerun == Init /\ [][NextRerun]_vars

(***************************************************************************)
(* _parse_and_assign_properties on its own: the runs of convert_archive   *)
(* over a single "structures" entry, started where construct_entries      *)
(* calls it (line 422), for every combination of property rows, declared  *)
(* properties and immutable_id of the first entry.                        *)
(***************************************************************************)
Id_foo == P_zip \o P_foo
Id_bar == P_zip \o P_bar

\* the values the row of a key can give "energy"
EnergyTokens == RawTokens

\* the rows props.csv can hold for one key: no row, or a row with any of
\* the given fields
RowChoices(key, energies, extras) ==
    {<<>>} \cup
    { <<Row(key, e \o x)>> :
        e \in {<<>>} \cup { <<Field("energy", tok)>> : tok \in energies },
        x \in {<<>>} \cup { <<Field("extra", tok)>> : tok \in extras } }

PropertyRows ==
    { stem \o full \o imm :
        stem \in RowChoices(K_foo, EnergyTokens, {"b:True"}),
        full \in RowChoices(Id_foo, {"i:2", "s:"}, {}),
        imm  \in RowChoices(K_imm, {"f:3.5"}, {}) }

\* the documents structures/foo.cif can hold: without the immutable_id
\* key, with it set to None, and with it set
FooDocs ==
    { Document(EmptyStr, a, <<"dict", "dict">>) :
        a \in { <<>>, <<ImmutableId(NoneV)>>, <<ImmutableId(StrV(K_imm))>> } }

PropertyFileSystems ==
    { FileSystem(<<Row(P_zip,
                       Container(<<Row(P_bar, EntryFile(Single(DocPlain), ParserRaises)),
                                   Row(P_foo, EntryFile(Single(d), ParserRaises))>>)),
                   Row(P_props, PropertyFile(Rows(rows)))>>) :
        d \in FooDocs, rows \in PropertyRows }

PropertyDefinitionChoices ==
    { <<>>,
      <<PropertyDefinition("energy", "float")>>,
      <<PropertyDefinition("energy", "integer"), PropertyDefinition("label", "string")>>,
      <<PropertyDefinition("energy", "string"), PropertyDefinition("extra", "boolean")>>,
      <<PropertyDefinition("energy", "list")>> }

PropertyConfigs ==
    { << [entry_type |-> "structures",
          entry_paths |-> <<PathSpec(P_zip, <<G_cif>>)>>,
          property_paths |-> <<PathSpec(P_props, <<>>)>>,
          property_definitions |-> defs] >> :
        defs \in PropertyDefinitionChoices }

\* the state of a run over the one-entry configuration c that has reached
\* line 422 of construct_entries
AtAssign(c, f, out) ==
    LET inflated == InflateAll(f, <<P_zip>>).val
        em == GetMatches(inflated, c[1].entry_paths).val
        pe == ParseEntries(inflated, em, c[1].entry_type)
        pm == GetMatches(inflated, c[1].property_paths).val
    IN  /\ config = c
        /\ files = inflated
        /\ jsonl = out
        /\ pc = "assign_properties"
        /\ ei = 1
        /\ entry_matches_by_file = em
        /\ parsed_entries = pe.parsed_entries
        /\ entry_ids = pe.entry_ids
        /\ property_matches_by_file = pm
        /\ entries = ConvertEntries(pe.entry_ids, pe.parsed_entries, c[1].entry_type).val
        /\ optimade_entries = <<>>
        /\ error = NoError
        /\ entry_parser_calls =
              [n \in 1..Len(pe.calls) |->
                  [entry |-> 1, parser |-> pe.calls[n].parser, path |-> pe.calls[n].path]]
        /\ property_parser_calls = <<>>
        /\ converter_calls =
              ConvertEntries(pe.entry_ids, pe.parsed_entries, c[1].entry_type).calls
        /\ warnings = {}
        /\ start_jsonl = out
        /\ run = 1
        /\ first_jsonl = NoFile

InitProps ==
    \E c \in PropertyConfigs, f \in PropertyFileSystems : AtAssign(c, f, NoFile)

NextProps ==
    \/ AssignProperties
    \/ ExtendEntries
    \/ WriteJsonl

SpecProps == InitProps /\ [][NextProps]_vars

(***************************************************************************)
(* _parse_and_assign_properties over two property files, props.csv and    *)
(* more.csv, listed in either order, whose rows overlap in keys and in    *)
(* property names.                                                         *)
(***************************************************************************)
\* the rows of props.csv and of more.csv
PropsRows == RowChoices(K_foo, {"i:2"}, {"b:True"})
MoreRows ==
    { foo \o bar :
        foo \in RowChoices(K_foo, {"f:3.5", "i:0"}, {"b:False"}),
        bar \in RowChoices(K_bar, {"f:3.5"}, {}) }

MergeFileSystems ==
    { FileSystem(<<Row(P_zip,
                       Container(<<Row(P_bar, EntryFile(Single(DocPlain), ParserRaises)),
                                   Row(P_foo, EntryFile(Single(DocPlain), ParserRaises))>>)),
                   Row(P_props, PropertyFile(Rows(rows))),
                   Row(P_more, PropertyFile(Rows(more)))>>) :
        rows \in PropsRows, more \in MoreRows }

MergeConfigs ==
    { << [entry_type |-> "structures",
          entry_paths |-> <<PathSpec(P_zip, <<G_cif>>)>>,
          property_paths |-> paths,
          property_definitions |-> <<PropertyDefinition("energy", "float"),
                                     PropertyDefinition("extra", "boolean")>>] >> :
        paths \in { <<PathSpec(P_props, <<>>), PathSpec(P_more, <<>>)>>,
                    <<PathSpec(P_more, <<>>), PathSpec(P_props, <<>>)>> } }

InitMerge ==
    \E c \in MergeConfigs, f \in MergeFileSystems : AtAssign(c, f, NoFile)

SpecMerge == InitMerge /\ [][NextProps]_vars

(***************************************************************************)
(* Claims.                                                                *)
(***************************************************************************)
\* the record lines of the output file
RecordLines == SelectSeq(jsonl.lines, LAMBDA l : l.kind = "entry")

\* C1: whenever convert_archive has written its output, no two records of
\* one entry type in it have the same id.
C1_UniqueIds ==
    (pc = "done") =>
        \A m, n \in 1..Len(RecordLines) :
            (m # n /\ RecordLines[m].type = RecordLines[n].type)
                => RecordLines[m].entry.id # RecordLines[n].entry.id

\* the parsed property rows of the entry configuration in work
Parsed == ParseProperties(files, property_matches_by_file)

\* the declared properties the assignment loop reaches: found and declared
Assignable ==
    Parsed.all_property_fields \cap DefNames(entry_config.property_definitions)

\* construct_entries has returned the entries of the configuration entry
Returned == pc = "extend"

\* _parse_and_assign_properties has run its assignment loop to the end
Assigned == Returned /\ property_matches_by_file # <<>>

\* the attribute written on an entry for a declared property
Written(entry, property) ==
    DictGet(entry.attributes, AttrKey(PROVIDER_PREFIX, property), NoneV)

\* C2: when construct_entries returns for an entry type with declared
\* properties, every entry has the key of every declared property.
C2_Rectangular ==
    Returned =>
        \A n \in 1..Len(entries) :
            \A name \in DefNames(entry_config.property_definitions) :
                DictHas(entries[n].v.attributes, AttrKey(PROVIDER_PREFIX, name))

\* the row the claimed lookup order gives an entry: under its immutable_id
\* if that is a key of the map, else under its filename stem
ClaimedKeys(id, attributes) ==
    LET immutable_id == DictGet(attributes, <<"immutable_id">>, NoneV) IN
    (IF immutable_id # NoneV /\ DictHas(Parsed.parsed_properties, immutable_id.p)
     THEN <<immutable_id.p>> ELSE <<>>)
    \o (IF DictHas(Parsed.parsed_properties, FilenameStem(id))
        THEN <<FilenameStem(id)>> ELSE <<>>)

\* C3: the values of an entry are those of the first of the two keys
\* (immutable_id, then filename stem) that is a key of the property map;
\* so an entry whose immutable_id is set but is no key of the map has the
\* values of the row keyed by its filename stem.
C3_StemFallback ==
    Assigned =>
        \A n \in 1..Len(entries) :
            LET keys == ClaimedKeys(entries[n].k, entries[n].v.attributes) IN
            (/\ DictGet(entries[n].v.attributes, <<"immutable_id">>, NoneV) # NoneV
             /\ keys = <<FilenameStem(entries[n].k)>>) =>
                \A property \in Assignable :
                    Written(entries[n].v, property) =
                        CastValue(DictGet(DictAt(Parsed.parsed_properties, keys[1]),
                                          property, NoneV),
                                  DefType(entry_config.property_definitions, property)).val

\* the raw value the row matched to an entry holds for a property
MatchedRaw(n, property) ==
    DictGet(DictGet(Parsed.parsed_properties,
                    PropertyEntryId(entries[n].k, entries[n].v.attributes), <<>>),
            property, NoneV)

\* C4: a non-None raw value of a declared property with a TYPE_MAP type is
\* written as that value cast, never as None.
C4_PresentValueCast ==
    Assigned =>
        \A n \in 1..Len(entries) :
            \A property \in Assignable :
                (/\ MatchedRaw(n, property) # NoneV
                 /\ DefType(entry_config.property_definitions, property) \in TypeMapKeys)
                    => Written(entries[n].v, property) =
                           Raw(Cast(DefType(entry_config.property_definitions, property),
                                    MatchedRaw(n, property).s))

\* the entry has an immutable_id or filename stem that is a key of the map
ClaimedMatch(n) == ClaimedKeys(entries[n].k, entries[n].v.attributes) # <<>>

\* the entry's first lookup key or its full identifier is a key of the map
Matched(n) ==
    \/ DictHas(Parsed.parsed_properties,
               PropertyEntryId(entries[n].k, entries[n].v.attributes))
    \/ DictHas(Parsed.parsed_properties, entries[n].k)

\* C5 as stated: an entry with neither its immutable_id nor its filename
\* stem among the keys gets None for every property written.
C5_UnmatchedIsNone ==
    Assigned =>
        \A n \in 1..Len(entries) :
            ~ClaimedMatch(n) =>
                \A property \in Assignable : Written(entries[n].v, property) = NoneV

\* C5 as amended: an entry with neither its first lookup key (immutable_id
\* when not None, else filename stem) nor its full identifier among the
\* keys gets None for every property written, and a cast error is never
\* raised unless some entry has a key in the map.
C5_UnmatchedIsNoneAmended ==
    /\ Assigned =>
          \A n \in 1..Len(entries) :
              ~Matched(n) =>
                  \A property \in Assignable : Written(entries[n].v, property) = NoneV
    /\ (pc = "failed" /\ error.at = "cast") =>
          \E n \in 1..Len(entries) : Matched(n)

\* C5 witness: the assignment has run over a batch in which one entry has
\* no key in the map and got None while another entry got a value.
C5_Witness ==
    /\ Assigned
    /\ \E m, n \in 1..Len(entries) :
          /\ ~Matched(m)
          /\ DictHas(entries[m].v.attributes, AttrKey(PROVIDER_PREFIX, "energy"))
          /\ Written(entries[m].v, "energy") = NoneV
          /\ Matched(n)
          /\ Written(entries[n].v, "energy") # NoneV

\* a wildcard pattern of the PathSpecs that matches no file
UnmatchedWildcard(paths) ==
    \E n \in 1..Len(paths) : \E j \in 1..Len(paths[n].matches) :
        HasWildcard(paths[n].matches[j]) /\ Glob(files, paths[n].matches[j]) = <<>>

\* the parser calls logged for the configuration entry in work
CallsOfEntry(calls) == SelectSeq(calls, LAMBDA c : c.entry = ei)

\* C6 as stated: when the not-found error of a wildcard without matches is
\* raised, no entry parser and no property parser has been called.
C6_WildcardBeforeParsing ==
    (pc = "failed" /\ error.at = "wildcard") =>
        entry_parser_calls = <<>> /\ property_parser_calls = <<>>

\* C6 as amended: a wildcard without matches is never passed over, and
\* when its not-found error is raised no property parser has been called
\* for the configuration entry in work, nor, for a wildcard among the
\* entry paths, any entry parser of that configuration entry.
C6_WildcardAmended ==
    /\ (pc = "check_entry_files") => ~UnmatchedWildcard(entry_config.entry_paths)
    /\ (pc = "check_property_files") => ~UnmatchedWildcard(entry_config.property_paths)
    /\ (pc = "failed" /\ error.at = "wildcard") =>
          /\ error.err = "FileNotFoundError"
          /\ CallsOfEntry(property_parser_calls) = <<>>
          /\ (error.stage = "get_entry_matches") => CallsOfEntry(entry_parser_calls) = <<>>

\* C6 witness: the not-found error of a property-path wildcard, raised
\* after the entry parsers of the same configuration entry have run.
C6_Witness ==
    /\ pc = "failed"
    /\ error.at = "wildcard"
    /\ error.stage = "get_property_matches"
    /\ UnmatchedWildcard(entry_config.property_paths)
    /\ CallsOfEntry(entry_parser_calls) # <<>>

\* C7: a second run over the same archive and configuration writes the
\* same file as the first, line for line and key for key.
C7_SameOutput ==
    (run = 2 /\ pc = "done") => jsonl = first_jsonl

\* the entry types of the configuration
ConfiguredTypes == { config[n].entry_type : n \in 1..Len(config) }

\* the records handed to the writer, type by type in insertion order
AllRecords == Flatten(DictValues(optimade_entries))

\* C8: the file written is the header line, then one info line for each
\* configured entry type, then the records type by type in the order they
\* were inserted; 1 + types + records lines in all.
C8_Layout ==
    (pc = "done") =>
        LET n_info == Cardinality(ConfiguredTypes)
            lines  == jsonl.lines
        IN  /\ Len(lines) = 1 + n_info + Len(AllRecords)
            /\ lines[1].kind = "x-optimade"
            /\ \A n \in 1..n_info : lines[1 + n].kind = "info"
            /\ { lines[1 + n].type : n \in 1..n_info } = ConfiguredTypes
            /\ \A n \in 1..Len(AllRecords) :
                  /\ lines[1 + n_info + n].kind = "entry"
                  /\ lines[1 + n_info + n].entry.id = AllRecords[n].id
                  /\ lines[1 + n_info + n].type = AllRecords[n].type

\* C8 witness: a file written with records of one type and the info line
\* of a type that has no records.
C8_Witness ==
    /\ pc = "done"
    /\ Len(AllRecords) >= 2
    /\ \E t \in ConfiguredTypes : \A n \in 1..Len(AllRecords) : AllRecords[n].type # t

\* C9: the writer called with a file already at the target path raises
\* and leaves that file as it is.
C9_ExistingOutputKept ==
    [][(pc = "write" /\ jsonl.exists) =>
          (pc' = "failed" /\ error'.at = "output_exists" /\ jsonl' = jsonl)]_vars

\* C9 witness: the writer was called on an existing file and raised.
C9_Witness ==
    /\ pc = "failed"
    /\ error.at = "output_exists"
    /\ error.stage = "write"
    /\ AllRecords # <<>>

\* C10: the output file is as the run found it until every configuration
\* entry has been processed; in particular it is when an error is raised
\* before the writer is called.
C10_NoPartialOutput ==
    /\ (jsonl # start_jsonl) => (pc = "done" /\ ei = Len(config) + 1)
    /\ (pc = "failed" /\ error.stage # "write") => (jsonl = start_jsonl)

\* C10 witness: a hard failure in the second configuration entry, after
\* the first has contributed records, with no output file.
C10_Witness ==
    /\ pc = "failed"
    /\ error.stage \in {"convert", "assign_properties", "parse_entries"}
    /\ ei = 2
    /\ AllRecords # <<>>
    /\ ~jsonl.exists

Min(S) == CHOOSE x \in S : \A y \in S : x <= y

\* the files _parse_entries is called on, in the order it takes them
EntryItems == MatchItems(entry_matches_by_file)

\* the registry positions of the parsers that return a non-empty result
\* for a file
GoodParsers(path) ==
    { k \in 1..Len(EntryParsers(entry_config.entry_type)) :
        LET out == files[path].parse[EntryParsers(entry_config.entry_type)[k]]
        IN  out.kind # "raise" /\ out.docs # <<>> }

\* the position of the first file that no registered parser can parse;
\* one past the last file if there is none
FirstUnparsable ==
    Min({ i \in 1..Len(EntryItems) : GoodParsers(EntryItems[i].path) = {} }
        \cup {Len(EntryItems) + 1})

\* the parser calls the claimed fail-over makes: for each file up to the
\* first unparsable one, the registered parsers in order up to the first
\* that returns a non-empty result
ClaimedParserCalls ==
    Flatten([i \in 1..Min({FirstUnparsable, Len(EntryItems)}) |->
        [k \in 1..(IF GoodParsers(EntryItems[i].path) = {}
                   THEN Len(EntryParsers(entry_config.entry_type))
                   ELSE Min(GoodParsers(EntryItems[i].path))) |->
            [entry  |-> ei,
             parser |-> EntryParsers(entry_config.entry_type)[k],
             path   |-> EntryItems[i].path]]])

\* the documents of the first successful parser of each file, file by file
ClaimedDocuments ==
    Flatten([i \in 1..Len(EntryItems) |->
        files[EntryItems[i].path].parse[
            EntryParsers(entry_config.entry_type)[
                Min(GoodParsers(EntryItems[i].path))]].docs])

\* _parse_entries has just returned or raised
ParseEntriesOver ==
    \/ pc = "get_property_matches"
    \/ pc = "failed" /\ error.stage = "parse_entries"

\* C11: the parsers of the entry type are called on each file in registry
\* order up to the first that returns a non-empty result, whose documents
\* are the file's; a parser that raises or returns nothing before it does
\* not abort the call; and when no parser succeeds on a file the call
\* raises one error whose report names every registered parser with its
\* exception.
C11_ParserFailover ==
    ParseEntriesOver =>
        /\ CallsOfEntry(entry_parser_calls) = ClaimedParserCalls
        /\ IF FirstUnparsable > Len(EntryItems)
           THEN /\ pc # "failed"
                /\ parsed_entries = ClaimedDocuments
           ELSE /\ pc = "failed"
                /\ error.err = "RuntimeError"
                /\ error.at = "parse_entries"
                /\ [n \in 1..Len(error.exceptions) |-> error.exceptions[n].k]
                       = EntryParsers(entry_config.entry_type)
                /\ \A n \in 1..Len(error.exceptions) :
                       error.exceptions[n].v =
                           ParserException(
                               files[EntryItems[FirstUnparsable].path].parse[
                                   error.exceptions[n].k])

\* C11 witness: _parse_entries returned the documents of a file whose
\* first parser raised or returned nothing and whose second parser
\* succeeded, after which no further call was made on that file.
C11_Witness ==
    /\ pc = "get_property_matches"
    /\ \E i \in 1..Len(EntryItems) : Min(GoodParsers(EntryItems[i].path)) = 2
    /\ \E i \in 1..Len(EntryItems) :
          files[EntryItems[i].path].parse[1] = Many(<<>>)
    /\ parsed_entries # <<>>

\* C11 witness of the failure: every registered parser was tried on a file
\* and the error raised reports both.
C11_FailureReached ==
    /\ pc = "failed"
    /\ error.at = "parse_entries"
    /\ Len(error.exceptions) = 2

\* the number of files matched under the sub-archive name of file i
MatchedUnder(i) ==
    Cardinality({ j \in 1..Len(EntryItems) : EntryItems[j].file = EntryItems[i].file })

\* the claimed identifier root of file i: <sub-archive name>/<path in the
\* archive> when several files are matched under the name, else the name
ClaimedRoot(i) ==
    IF MatchedUnder(i) > 1
    THEN EntryItems[i].file \o EntryItems[i].path
    ELSE EntryItems[i].file

\* what the successful parser of file i returned
ParserResult(i) ==
    files[EntryItems[i].path].parse[
        EntryParsers(entry_config.entry_type)[Min(GoodParsers(EntryItems[i].path))]]

\* the claimed (identifier, document) pairs of file i: <root>/0 ...
\* <root>/(n-1) for a sequence of n documents, <root> for one document
ClaimedPairs(i) ==
    IF ParserResult(i).kind = "list"
    THEN [n \in 1..Len(ParserResult(i).docs) |->
             [id  |-> ClaimedRoot(i) \o << <<ToString(n - 1)>> >>,
              doc |-> ParserResult(i).docs[n]]]
    ELSE << [id |-> ClaimedRoot(i), doc |-> ParserResult(i).docs[1]] >>

\* C12: the identifiers _parse_entries returns are, file by file, <root>
\* for a single document and <root>/0 ... <root>/(n-1) for a sequence of n
\* documents, with <root> the sub-archive name, followed by the file's path
\* in the archive when several files are matched under that name; the two
\* returned lists have the same length and correspond position by position.
C12_Identifiers ==
    (pc = "get_property_matches") =>
        /\ Len(entry_ids) = Len(parsed_entries)
        /\ [n \in 1..Len(entry_ids) |-> [id |-> entry_ids[n], doc |-> parsed_entries[n]]]
               = Flatten([i \in 1..Len(EntryItems) |-> ClaimedPairs(i)])

\* C12 witness: a single matched file whose parser returned a sequence of
\* two documents, identified by the collapsed root and their positions.
C12_Witness ==
    /\ pc = "get_property_matches"
    /\ Len(EntryItems) = 1
    /\ ParserResult(1).kind = "list"
    /\ entry_ids = << P_zip \o << <<"0">> >>, P_zip \o << <<"1">> >> >>

\* C12, the long root: two files matched under one sub-archive name, each
\* with a single document identified by the name and the file's path.
C12_LongRootReached ==
    /\ pc = "get_property_matches"
    /\ entry_ids = << P_zip \o P_bar, P_zip \o P_foo >>

\* _parse_and_assign_properties has just returned or raised
AssignOver ==
    \/ pc = "extend"
    \/ pc = "failed" /\ error.stage = "assign_properties"

\* the parse loop over the property files (lines 286-305), on its own
ParsedFiles ==
    ParsePropertyItems(files, MatchItems(property_matches_by_file), <<>>, {}, <<>>)

\* there are property files and each of them was parsed by some parser
FilesParsed == property_matches_by_file # <<>> /\ ParsedFiles.err = "none"

\* the property names found differ from the declared ones
FieldsDiffer ==
    ParsedFiles.all_property_fields # DefNames(entry_config.property_definitions)

\* C13: when the property files were parsed and the names found in them
\* differ from the declared names, the warning is emitted and the call
\* does not raise for it (an error of a cast apart): assignment runs and
\* construct_entries returns its entries.
C13_MismatchWarns ==
    (AssignOver /\ FilesParsed /\ FieldsDiffer) =>
        /\ "fields_differ" \in warnings
        /\ (pc = "failed") => (error.at = "cast")

\* C14: a call of the writer that writes the file leaves no attribute key
\* with the reserved prefix on any record line, and puts every other
\* attribute key of the records it was handed on their lines with the
\* same value.
C14_ReservedKeysStripped ==
    [][(pc = "write" /\ pc' = "done") =>
          /\ Len(RecordLines') = Len(AllRecords)
          /\ \A n \in 1..Len(AllRecords) :
                /\ \A key \in DictKeys(RecordLines'[n].entry.attributes) :
                       ~StartsWithAse(key)
                /\ \A key \in DictKeys(AllRecords[n].attributes) :
                       ~StartsWithAse(key) =>
                           /\ DictHas(RecordLines'[n].entry.attributes, key)
                           /\ DictAt(RecordLines'[n].entry.attributes, key)
                                  = DictAt(AllRecords[n].attributes, key)]_vars

\* C14 witness: the record of a document that carries the reserved key
\* _ase_tag next to the key ase_info, written with an assigned property
\* key and ase_info and without _ase_tag.
C14_Witness ==
    /\ pc = "done"
    /\ \E n \in 1..Len(RecordLines) :
          /\ RecordLines[n].entry.id = K_X
          /\ DictHas(RecordLines[n].entry.attributes, <<"ase", "_", "info">>)
          /\ DictHas(RecordLines[n].entry.attributes, AttrKey(PROVIDER_PREFIX, "energy"))
          /\ ~DictHas(RecordLines[n].entry.attributes, <<"_", "ase", "_", "tag">>)

\* C15: every converter call of the fail-over loop is given the document
\* as _parse_entries returned it.
C15_OriginalDocument ==
    \A n \in 1..Len(converter_calls) :
        converter_calls[n].given = converter_calls[n].parsed

\* the rows the property files give, in the order the files are parsed
FileRows ==
    [i \in 1..Len(MatchItems(property_matches_by_file)) |->
        files[MatchItems(property_matches_by_file)[i].path].rows[1].rows]

\* the files, by position, whose row for a record key gives a property
GivenBy(key, property) ==
    { i \in 1..Len(FileRows) :
        DictHas(FileRows[i], key) /\ DictHas(DictAt(FileRows[i], key), property) }

Max(S) == CHOOSE x \in S : \A y \in S : x >= y

\* the value claimed for a record key and property: that of the last file
\* that gives it
MergedValue(key, property) ==
    DictAt(DictAt(FileRows[Max(GivenBy(key, property))], key), property)

\* the record keys of all files, and the property names of a key
MergedKeys == UNION { DictKeys(FileRows[i]) : i \in 1..Len(FileRows) }
MergedNames(key) ==
    UNION { DictKeys(DictAt(FileRows[i], key)) :
              i \in { j \in 1..Len(FileRows) : DictHas(FileRows[j], key) } }

\* C16: after all property files are processed the row accumulated for a
\* record key has every property name some file gives for the key, each
\* with the value of the last file that gives it; and an entry matched
\* to the key by its filename stem is assigned those values (cast).
C16_RowsMerged ==
    Assigned =>
        /\ DictKeys(Parsed.parsed_properties) = MergedKeys
        /\ \A key \in MergedKeys :
              /\ DictKeys(DictAt(Parsed.parsed_properties, key)) = MergedNames(key)
              /\ \A property \in MergedNames(key) :
                     DictAt(DictAt(Parsed.parsed_properties, key), property)
                         = MergedValue(key, property)
        /\ \A n \in 1..Len(entries) :
              \A property \in Assignable :
                  (/\ GivenBy(FilenameStem(entries[n].k), property) # {}
                   /\ Truthy(MergedValue(FilenameStem(entries[n].k), property))) =>
                      Written(entries[n].v, property) =
                          Raw(Cast(DefType(entry_config.property_definitions, property),
                                   MergedValue(FilenameStem(entries[n].k), property).s))

\* C16 witness: both files have a row for the key foo; the second file
\* parsed gives energy again and not extra, and the entry foo has the
\* energy of the second file and the extra of the first.
C16_Witness ==
    /\ Assigned
    /\ Len(FileRows) = 2
    /\ GivenBy(K_foo, "energy") = {1, 2}
    /\ GivenBy(K_foo, "extra") = {1}
    /\ DictAt(DictAt(FileRows[1], K_foo), "energy")
           # DictAt(DictAt(FileRows[2], K_foo), "energy")
    /\ \E n \in 1..Len(entries) :
          /\ FilenameStem(entries[n].k) = K_foo
          /\ Written(entries[n].v, "energy") =
                 Raw(Cast("float", DictAt(DictAt(FileRows[2], K_foo), "energy").s))
          /\ Written(entries[n].v, "extra") =
                 Raw(Cast("boolean", DictAt(DictAt(FileRows[1], K_foo), "extra").s))

\* the attribute keys of the declared properties
DeclaredKeys ==
    { AttrKey(PROVIDER_PREFIX, name) : name \in DefNames(entry_config.property_definitions) }

\* C17: a call of _parse_and_assign_properties keeps every entry with its
\* key, id and type, keeps every attribute key, changes the value of none
\* but the keys of declared properties, and adds no other key.
C17_Frame ==
    [][(pc = "assign_properties") =>
          /\ Len(entries') = Len(entries)
          /\ \A n \in 1..Len(entries) :
                /\ entries'[n].k = entries[n].k
                /\ entries'[n].v.id = entries[n].v.id
                /\ entries'[n].v.type = entries[n].v.type
                /\ \A key \in DictKeys(entries[n].v.attributes) :
                      /\ DictHas(entries'[n].v.attributes, key)
                      /\ key \notin DeclaredKeys =>
                            DictAt(entries'[n].v.attributes, key)
                                = DictAt(entries[n].v.attributes, key)
                /\ DictKeys(entries'[n].v.attributes)
                       \subseteq DictKeys(entries[n].v.attributes) \cup DeclaredKeys]_vars

\* C17 witness: the call has returned with a property name found in the
\* file and not declared; an entry matched to a row that gives it has the
\* declared key set, no key for the undeclared name, and its immutable_id.
C17_Witness ==
    /\ Assigned
    /\ "extra" \in Parsed.all_property_fields
    /\ "extra" \notin DefNames(entry_config.property_definitions)
    /\ \E n \in 1..Len(entries) :
          /\ Written(entries[n].v, "energy") # NoneV
          /\ MatchedRaw(n, "extra") # NoneV
          /\ ~DictHas(entries[n].v.attributes, AttrKey(PROVIDER_PREFIX, "extra"))
          /\ DictHas(entries[n].v.attributes, <<"immutable_id">>)

====
